---- MODULE Spec2Model ----
(***************************************************************************)
(* Model of poetry's "self update" command                                 *)
(* (src/poetry/console/commands/self/update.py, class SelfUpdateCommand).  *)
(*                                                                         *)
(* The state is the part of the file system under the home directory       *)
(* (lib, lib-backup, bin), the position of the command in handle/update/   *)
(* _update, the exception in flight and a log of the external calls made.  *)
(* Every call that can raise (shutil.rmtree, shutil.copytree, urlopen,     *)
(* the digest comparison, extractall, make_bin) has a succeeding and a     *)
(* failing outcome; a failing rmtree/copytree/extractall leaves any part   *)
(* of its work done.                                                       *)
(***************************************************************************)
EXTENDS Integers, Sequences, FiniteSets, TLC

(***************************************************************************)
(* Bounds of the model.                                                    *)
(***************************************************************************)
MaxRel == 2        \* release numbers 1..MaxRel, each as a prerelease and a final
MaxPackages == 3   \* longest candidate list returned by the index
MaxFiles == 2      \* entries of an installation (old, new)
MaxRuns == 2       \* runs of update on the same home directory, one after the other

(***************************************************************************)
(* Directories: absent, or present with a set of entries.                  *)
(***************************************************************************)
Absent == [ex |-> FALSE, files |-> {}]
Dir(S) == [ex |-> TRUE, files |-> S]

OldFiles == {<<"old", i>> : i \in 1..MaxFiles}
NewFiles == {<<"new", i>> : i \in 1..MaxFiles}
StaleFiles == {<<"stale", 1>>}

(***************************************************************************)
(* Versions and packages.  A version is a release number with a            *)
(* prerelease flag; the prerelease of a release sorts before its final.    *)
(***************************************************************************)
Versions == [rel : 1..MaxRel, pre : BOOLEAN]
VersionLt(a, b) == \/ a.rel < b.rel
                   \/ a.rel = b.rel /\ a.pre /\ ~b.pre
Packages == [version : Versions]
is_prerelease(p) == p.version.pre

NoRelease == [version |-> [rel |-> 0, pre |-> FALSE]]

PackageLists == UNION {[1..n -> Packages] : n \in 0..MaxPackages}

(***************************************************************************)
(* The version argument: absent, or a constraint.  handle turns an absent  *)
(* argument into ">=" + __version__.                                       *)
(***************************************************************************)
NoArg == [op |-> "", v |-> [rel |-> 0, pre |-> FALSE]]
Args == {NoArg} \cup [op : {"==", ">=", "<="}, v : Versions]
Constraint(arg, cur) == IF arg = NoArg THEN [op |-> ">=", v |-> cur] ELSE arg
Allows(c, v) == CASE c.op = "==" -> v = c.v
                  [] c.op = ">=" -> ~VersionLt(v, c.v)
                  [] c.op = "<=" -> ~VersionLt(c.v, v)
FindPackages(c) == {pk \in PackageLists : \A i \in 1..Len(pk) : Allows(c, pk[i].version)}

(***************************************************************************)
(* packages.sort(key=cmp_to_key(lambda x, y: ...)): a stable sort by the   *)
(* comparator of lines 103-105.                                            *)
(***************************************************************************)
CmpAscending(x, y) == IF x.version = y.version THEN 0
                      ELSE IF VersionLt(x.version, y.version) THEN -1 ELSE 1
Cmp(x, y) == IF x.version = y.version THEN 0
             ELSE IF VersionLt(x.version, y.version) THEN 1 ELSE -1

\* position at which a stable insertion puts x into the sorted list s
InsertPos(s, x) == IF \E i \in 1..Len(s) : Cmp(x, s[i]) < 0
                   THEN CHOOSE i \in 1..Len(s) :
                          /\ Cmp(x, s[i]) < 0
                          /\ \A j \in 1..(i-1) : ~(Cmp(x, s[j]) < 0)
                   ELSE Len(s) + 1
Insert(s, x) == LET i == InsertPos(s, x)
                IN SubSeq(s, 1, i-1) \o <<x>> \o SubSeq(s, i, Len(s))

RECURSIVE SortFrom(_, _, _)
SortFrom(s, acc, i) == IF i > Len(s) THEN acc
                       ELSE SortFrom(s, Insert(acc, s[i]), i + 1)
Sort(s) == SortFrom(s, <<>>, 1)

(***************************************************************************)
(* The selection loop of handle, lines 109-121, over the sorted list.      *)
(***************************************************************************)
SelectFromFirst(s, preview, i) == IF i > Len(s) THEN NoRelease ELSE s[i]
RECURSIVE SelectFrom(_, _, _)
SelectFrom(s, preview, i) ==
    IF i > Len(s) THEN NoRelease
    ELSE IF is_prerelease(s[i])
         THEN IF preview THEN s[i] ELSE SelectFrom(s, preview, i + 1)
         ELSE s[i]
Select(s, preview) == SelectFrom(s, preview, 1)

(***************************************************************************)
(* _check_recommended_installation: Path(__file__).relative_to(home)       *)
(* succeeds when home is a prefix of the file's path.                      *)
(***************************************************************************)
Homes == {<<"h">>, <<"h", "p">>}
FileLocations == {<<"h", "lib", "update.py">>, <<"site", "update.py">>}
IsRelativeToAlways(file, home) == TRUE
IsRelativeTo(file, home) == /\ Len(home) <= Len(file)
                            /\ SubSeq(file, 1, Len(home)) = home

(***************************************************************************)
(* The checksum sidecar and the archive.  A text is a sequence of          *)
(* characters; str.strip() removes leading and trailing whitespace;        *)
(* Sha is hashlib.sha256(...).hexdigest() of the downloaded bytes.         *)
(***************************************************************************)
Whitespace == {" ", "\n"}
RECURSIVE LStrip(_)
LStrip(t) == IF t # <<>> /\ Head(t) \in Whitespace THEN LStrip(Tail(t)) ELSE t
RECURSIVE RStrip(_)
RStrip(t) == IF t # <<>> /\ t[Len(t)] \in Whitespace
             THEN RStrip(SubSeq(t, 1, Len(t) - 1)) ELSE t
Strip(t) == RStrip(LStrip(t))

Archives == {"release", "other"}
Sha(a) == IF a = "release" THEN <<"a", "b">> ELSE <<"c", "d">>
Entries(a) == IF a = "release" THEN NewFiles ELSE {<<"other", 1>>}
SidecarBodies == { <<"a", "b">>, <<"a", "b", "\n">>, <<" ", "a", "b", " ">>,
                   <<"A", "B">>, <<"a", " ", "b">>, <<"c", "d">>, <<>> }
NoText == <<"?">>

HashesMatchAlways(checksum, a) == TRUE
HashesMatch(checksum, a) == checksum = Sha(a)

(***************************************************************************)
(* _which_python.  Probing a candidate raises CalledProcessError, fails to *)
(* decode, or yields a text "<name> <n>.<n>...." that the pattern          *)
(* ^Python (\d+)\.(\d+)\..+$ matches when the name is Python and at least  *)
(* three dotted components follow.                                         *)
(***************************************************************************)
Probes == { [kind |-> "CalledProcessError", name |-> "", nums |-> <<>>],
            [kind |-> "UnicodeDecodeError", name |-> "", nums |-> <<>>],
            [kind |-> "output", name |-> "Python", nums |-> <<3, 9, 1>>],
            [kind |-> "output", name |-> "Python", nums |-> <<2, 7, 18>>],
            [kind |-> "output", name |-> "Python", nums |-> <<3, 9>>],
            [kind |-> "output", name |-> "PyPy", nums |-> <<3, 9, 1>>] }
Matches(o) == o.name = "Python" /\ Len(o.nums) >= 3

allowed_executables(windows) ==
    IF windows THEN <<"python", "python3", "py.exe -3", "py.exe -2">>
    ELSE <<"python", "python3">>

\* the result records whether an exception left the function, the value
\* returned, and how many candidates were probed
RECURSIVE WhichFromFirstValid(_, _, _, _)
WhichFromFirstValid(cands, probes, i, fallback) ==
    IF i > Len(cands)
    THEN [raised |-> FALSE, value |-> "python", probed |-> Len(cands)]
    ELSE CASE probes[i].kind = "CalledProcessError" ->
                WhichFromFirstValid(cands, probes, i + 1, fallback)
           [] probes[i].kind = "UnicodeDecodeError" ->
                [raised |-> TRUE, value |-> "", probed |-> i]
           [] OTHER -> [raised |-> FALSE, value |-> cands[i], probed |-> i]
RECURSIVE WhichFrom(_, _, _, _)
WhichFrom(cands, probes, i, fallback) ==
    IF i > Len(cands)
    THEN [raised |-> FALSE, value |-> IF fallback = "" THEN "python" ELSE fallback,
          probed |-> Len(cands)]
    ELSE CASE probes[i].kind = "CalledProcessError" ->
                WhichFrom(cands, probes, i + 1, fallback)
           [] probes[i].kind = "UnicodeDecodeError" ->
                [raised |-> TRUE, value |-> "", probed |-> i]
           [] OTHER ->
                IF Matches(probes[i]) /\ probes[i].nums[1] >= 3
                THEN [raised |-> FALSE, value |-> cands[i], probed |-> i]
                ELSE WhichFrom(cands, probes, i + 1,
                               IF fallback = "" THEN cands[i] ELSE fallback)
which_python(windows, probes) ==
    WhichFrom(allowed_executables(windows), probes, 1, "")

(***************************************************************************)
(* The launchers written by make_bin: bin/poetry (with a shebang line      *)
(* outside Windows, made executable) and bin/poetry.bat (Windows).         *)
(***************************************************************************)
NoPoetry == [ex |-> FALSE, shebang |-> "", exec |-> FALSE]
NoBat == [ex |-> FALSE, python |-> ""]
NoBin == [poetry |-> NoPoetry, bat |-> NoBat]
OldBin == [poetry |-> [ex |-> TRUE, shebang |-> "python", exec |-> TRUE], bat |-> NoBat]

ShebangFixed(windows, python) == IF windows THEN "" ELSE "python"
Shebang(windows, python) == IF windows THEN "" ELSE python

\* bin after line 277 (poetry.bat written on Windows)
BinAfterBat(b, windows, python) ==
    IF windows THEN [b EXCEPT !.bat = [ex |-> TRUE, python |-> python]] ELSE b
\* bin after line 283 (poetry written; write_text keeps the mode of an existing file)
BinAfterWrite(b, windows, python) ==
    [BinAfterBat(b, windows, python) EXCEPT
        !.poetry = [ex |-> TRUE, shebang |-> Shebang(windows, python),
                    exec |-> b.poetry.ex /\ b.poetry.exec]]
BinAfterChmodToggle(b, windows, python) ==
    LET w == BinAfterWrite(b, windows, python)
    IN IF windows THEN w ELSE [w EXCEPT !.poetry.exec = ~w.poetry.exec]
\* bin after line 288 (chmod +x outside Windows)
BinAfterChmod(b, windows, python) ==
    LET w == BinAfterWrite(b, windows, python)
    IN IF windows THEN w ELSE [w EXCEPT !.poetry.exec = TRUE]

(***************************************************************************)
(* State.                                                                  *)
(***************************************************************************)
VARIABLES
    pc,          \* position of the command
    home,        \* self.home
    file,        \* Path(__file__) of the running command
    windows,     \* poetry.utils._compat.WINDOWS
    lib,         \* the directory home/lib
    lib_backup,  \* the directory home/lib-backup
    bin,         \* the launchers in home/bin
    tmpdir,      \* whether the temporary download directory exists
    current,     \* __version__, imported by handle
    arg,         \* self.argument("version")
    preview,     \* self.option("preview")
    found,       \* the list returned by find_packages
    packages,    \* that list after the sort of lines 101-107
    release,     \* the release selected by handle
    checksum,    \* the fetched and stripped checksum
    archive,     \* the downloaded archive
    python_executable, \* the result of _which_python in make_bin
    exc,         \* the exception in flight, "" when none
    failed,      \* the steps that failed in this run
    log,         \* external calls made so far, in order
    out,         \* lines written to the console
    lib0,        \* lib when the run started
    backup0,     \* lib-backup when the run started
    bin0,        \* bin when the run started
    size,        \* the Content-Length header of the archive response
    thrown,      \* the Exception that _update raised, "" when none
    runs,        \* completed runs of the command on this installation
    probing,     \* what probing each candidate interpreter yields
    probed,      \* how many candidates _which_python has probed
    bin_first    \* bin after the first of two make_bin runs

vars == <<pc, home, file, windows, current, lib, lib_backup, bin, tmpdir, arg,
          preview, found, packages, release, checksum, archive, python_executable,
          exc, failed, log, out, lib0, backup0, bin0, size, thrown, runs,
          probing, probed, bin_first>>

launcherVars == <<probing, probed, bin_first>>
envVars == <<home, file, windows, lib0, backup0, bin0, runs, launcherVars>>
handleVars == <<current, arg, preview, found, packages, release>>
netVars == <<checksum, archive, tmpdir, size>>
fsVars == <<lib, lib_backup, bin, python_executable>>

Init ==
    /\ pc = "start"
    /\ home \in Homes
    /\ file \in FileLocations
    /\ windows \in BOOLEAN
    /\ lib \in {Absent, Dir(OldFiles)}
    /\ lib_backup \in {Absent, Dir(StaleFiles)}
    /\ bin \in {NoBin, OldBin}
    /\ tmpdir = FALSE
    /\ current = NoRelease.version
    /\ arg = NoArg
    /\ preview = FALSE
    /\ found = <<>>
    /\ packages = <<>>
    /\ release = NoRelease
    /\ checksum = NoText
    /\ archive = "release"
    /\ python_executable = ""
    /\ exc = ""
    /\ failed = {}
    /\ log = <<>>
    /\ out = <<>>
    /\ lib0 = lib
    /\ backup0 = lib_backup
    /\ bin0 = bin
    /\ size = "none"
    /\ thrown = ""
    /\ runs = 0
    /\ probing = <<>>
    /\ probed = 0
    /\ bin_first = NoBin

\* an exception leaves the command
Raise(e, step) == /\ exc' = e
                  /\ failed' = failed \cup step
                  /\ pc' = "done"
                  /\ UNCHANGED thrown

(***************************************************************************)
(* handle, lines 82-131, up to the call of update.                         *)
(***************************************************************************)
HandleGuardFails ==
    /\ pc = "start"
    /\ ~IsRelativeTo(file, home)
    /\ Raise("PoetrySimpleConsoleException", {"guard"})
    /\ UNCHANGED <<envVars, handleVars, netVars, lib, lib_backup, bin, python_executable, log, out>>

HandleFindFails ==
    /\ pc = "start"
    /\ IsRelativeTo(file, home)
    /\ log' = Append(log, "find_packages")
    /\ Raise("find_packages", {"find_packages"})
    /\ UNCHANGED <<envVars, handleVars, netVars, lib, lib_backup, bin, python_executable, out>>

HandleOutcomeNoVersionCheck(pk, rel, cur) ==
    IF pk = <<>> THEN [line |-> <<"No release found for the specified version">>, pc |-> "done"]
    ELSE IF rel = NoRelease THEN [line |-> <<"No new release found">>, pc |-> "done"]
    ELSE [line |-> <<>>, pc |-> "update"]
\* the message and position after the selection of lines 97-129
HandleOutcome(pk, rel, cur) ==
    IF pk = <<>> THEN [line |-> <<"No release found for the specified version">>, pc |-> "done"]
    ELSE IF rel = NoRelease THEN [line |-> <<"No new release found">>, pc |-> "done"]
    ELSE IF rel.version = cur THEN [line |-> <<"You are using the latest version">>, pc |-> "done"]
    ELSE [line |-> <<>>, pc |-> "update"]

Handle ==
    /\ pc = "start"
    /\ IsRelativeTo(file, home)
    /\ \E cur \in Versions, a \in Args, pv \in BOOLEAN :
         \E pk \in FindPackages(Constraint(a, cur)) :
            LET sorted == Sort(pk)
                rel == IF pk = <<>> THEN NoRelease ELSE Select(sorted, pv)
                o == HandleOutcome(pk, rel, cur)
            IN /\ current' = cur
               /\ arg' = a
               /\ preview' = pv
               /\ found' = pk
               /\ packages' = sorted
               /\ release' = rel
               /\ out' = out \o o.line
               /\ pc' = o.pc
    /\ log' = Append(log, "find_packages")
    /\ UNCHANGED <<envVars, netVars, lib, lib_backup, bin, python_executable, exc, failed, thrown>>

(***************************************************************************)
(* update, lines 133-167.                                                  *)
(***************************************************************************)
\* lines 131-135: the call; handle's locals play no part from here on
EnterUpdate ==
    /\ pc = "update"
    /\ out' = Append(out, "Updating to")
    /\ current' = NoRelease.version
    /\ arg' = NoArg
    /\ preview' = FALSE
    /\ found' = <<>>
    /\ packages' = <<>>
    /\ pc' = "stale"
    /\ UNCHANGED <<envVars, release, netVars, lib, lib_backup, bin, python_executable, exc, failed, thrown, log>>

\* the directories a failed shutil.rmtree(d) can leave
RmtreeLeaves(d) == {Dir(S) : S \in SUBSET d.files}
\* the directories a failed shutil.copytree(src, dst) can leave at dst
CopytreeLeaves(src) == {Absent} \cup {Dir(S) : S \in SUBSET src.files}

RmStaleKeeps ==
    /\ pc = "stale"
    /\ pc' = "backup"
    /\ UNCHANGED <<lib_backup, exc, failed, thrown>>
    /\ UNCHANGED <<envVars, handleVars, netVars, lib, bin, python_executable, log, out>>

\* lines 137-138
RmStale ==
    /\ pc = "stale"
    /\ \/ /\ ~lib_backup.ex
          /\ pc' = "backup"
          /\ UNCHANGED <<lib_backup, exc, failed, thrown>>
       \/ /\ lib_backup.ex
          /\ lib_backup' = Absent
          /\ pc' = "backup"
          /\ UNCHANGED <<exc, failed, thrown>>
       \/ /\ lib_backup.ex
          /\ lib_backup' \in RmtreeLeaves(lib_backup)
          /\ Raise("rmtree stale", {"stale_rm"})
    /\ UNCHANGED <<envVars, handleVars, netVars, lib, bin, python_executable, log, out>>

\* lines 141-142
BackupCopy ==
    /\ pc = "backup"
    /\ \/ /\ ~lib.ex
          /\ pc' = "checksum"
          /\ UNCHANGED <<lib_backup, exc, failed, thrown, log>>
       \/ /\ lib.ex
          /\ log' = Append(log, "copytree lib lib-backup")
          /\ lib_backup' = Dir(lib.files)
          /\ pc' = "rmlib"
          /\ UNCHANGED <<exc, failed, thrown>>
       \/ /\ lib.ex
          /\ log' = Append(log, "copytree lib lib-backup")
          /\ lib_backup' \in CopytreeLeaves(lib)
          /\ Raise("copytree backup", {"backup_copy"})
    /\ UNCHANGED <<envVars, handleVars, netVars, lib, bin, python_executable, out>>

\* line 143
RmLib ==
    /\ pc = "rmlib"
    /\ \/ /\ lib' = Absent
          /\ pc' = "checksum"
          /\ UNCHANGED <<exc, failed, thrown>>
       \/ /\ lib' \in RmtreeLeaves(lib)
          /\ Raise("rmtree lib", {"lib_rm"})
    /\ UNCHANGED <<envVars, handleVars, netVars, lib_backup, bin, python_executable, log, out>>

(***************************************************************************)
(* _update, lines 169-237, called inside the try of line 145.              *)
(***************************************************************************)
InLog(e) == \E i \in 1..Len(log) : log[i] = e

\* an exception leaves _update and reaches the except clause of line 147
Throw(e, step) == /\ exc' = e
                  /\ thrown' = e
                  /\ failed' = failed \cup step
                  /\ pc' = "except"

\* poetry.utils.helpers.temporary_directory: whether the directory exists
\* once the with statement of line 208 has been left
TemporaryDirectoryExit(t) == FALSE

ThrowPastWith(e, step) == Throw(e, step) /\ UNCHANGED tmpdir
\* an exception leaves _update from inside the with statement of line 208
ThrowInWith(e, step) == Throw(e, step) /\ tmpdir' = TemporaryDirectoryExit(tmpdir)

\* lines 178-186
FetchChecksum ==
    /\ pc = "checksum"
    /\ log' = Append(log, "GET sha256sum")
    /\ \/ /\ \E body \in SidecarBodies : checksum' = Strip(body)
          /\ pc' = "archive"
          /\ UNCHANGED <<exc, failed, thrown>>
       \/ /\ Throw("urlopen sha256sum", {"checksum_fetch"})
          /\ UNCHANGED checksum
    /\ UNCHANGED <<envVars, handleVars, archive, tmpdir, size, lib, lib_backup, bin, python_executable, out>>

\* lines 189-199: the request, and int(meta["Content-Length"])
OpenArchive ==
    /\ pc = "archive"
    /\ log' = Append(log, "GET tar.gz")
    /\ \/ /\ size' = "present"
          /\ pc' = "mkdtemp"
          /\ UNCHANGED <<exc, failed, thrown>>
       \/ /\ Throw("urlopen tar.gz", {"archive_fetch"})
          /\ UNCHANGED size
       \/ /\ size' = "absent"
          /\ Throw("TypeError", {"content_length"})
    /\ UNCHANGED <<envVars, handleVars, checksum, archive, tmpdir, lib, lib_backup, bin, python_executable, out>>

\* line 208: the temporary directory is created
EnterTemporaryDirectory ==
    /\ pc = "mkdtemp"
    /\ \/ /\ tmpdir' = TRUE
          /\ pc' = "stream"
          /\ UNCHANGED <<exc, failed, thrown>>
       \/ /\ Throw("mkdtemp", {"mkdtemp"})
          /\ UNCHANGED tmpdir
    /\ UNCHANGED <<envVars, handleVars, checksum, archive, size, lib, lib_backup, bin, python_executable, log, out>>

\* lines 209-222: the body is streamed into the temporary directory
Stream ==
    /\ pc = "stream"
    /\ log' = Append(log, "read")
    /\ \/ /\ archive' \in Archives
          /\ pc' = "digest"
          /\ UNCHANGED <<exc, failed, thrown, tmpdir>>
       \/ /\ ThrowInWith("read", {"stream"})
          /\ UNCHANGED archive
    /\ UNCHANGED <<envVars, handleVars, checksum, size, lib, lib_backup, bin, python_executable, out>>

\* lines 224-230
CheckHashes ==
    /\ pc = "digest"
    /\ \/ /\ HashesMatch(checksum, archive)
          /\ pc' = "extract"
          /\ UNCHANGED <<exc, failed, thrown, tmpdir>>
       \/ /\ ~HashesMatch(checksum, archive)
          /\ ThrowInWith("Hashes do not match", {"digest"})
    /\ UNCHANGED <<envVars, handleVars, checksum, archive, size, lib, lib_backup, bin, python_executable, log, out>>

\* what a failed extraction into d can leave: nothing done, or d created with
\* some of the entries written
ExtractLeaves(d, a) == {d} \cup {Dir(d.files \cup S) : S \in (SUBSET Entries(a)) \ {Entries(a)}}

\* lines 232-237
Extract ==
    /\ pc = "extract"
    /\ log' = Append(log, "extractall")
    /\ \/ /\ lib' = Dir(lib.files \cup Entries(archive))
          /\ tmpdir' = TemporaryDirectoryExit(tmpdir)
          /\ pc' = "finally"
          /\ UNCHANGED <<exc, failed, thrown>>
       \/ /\ lib' \in ExtractLeaves(lib, archive)
          /\ ThrowInWith("extractall", {"extract"})
    /\ UNCHANGED <<envVars, handleVars, checksum, archive, size, lib_backup, bin, python_executable, out>>

\* A KeyboardInterrupt during one of the blocking calls of _update: it is
\* not an Exception, so the except clause of line 147 is passed over and the
\* finally clause of line 155 runs.
Interrupt ==
    /\ pc \in {"checksum", "archive", "mkdtemp", "stream", "extract"}
    /\ exc' = "KeyboardInterrupt"
    /\ failed' = failed \cup {"interrupt"}
    /\ pc' = "finally"
    /\ tmpdir' = IF pc \in {"stream", "extract"} THEN TemporaryDirectoryExit(tmpdir) ELSE tmpdir
    /\ IF pc = "extract" THEN lib' \in ExtractLeaves(lib, archive) ELSE lib' = lib
    /\ UNCHANGED <<envVars, handleVars, checksum, archive, size, lib_backup, bin, python_executable, thrown, log, out>>

(***************************************************************************)
(* The except and finally clauses of update, lines 147-157.                *)
(***************************************************************************)
\* line 148
Except ==
    /\ pc = "except"
    /\ pc' = IF lib_backup.ex THEN "restore" ELSE "finally"
    /\ UNCHANGED <<envVars, handleVars, netVars, lib, lib_backup, bin, python_executable, exc, failed, thrown, log, out>>

\* line 151: copytree refuses an existing destination
Restore ==
    /\ pc = "restore"
    /\ log' = Append(log, "copytree lib-backup lib")
    /\ \/ /\ lib.ex
          /\ exc' = "FileExistsError"
          /\ pc' = "finally"
          /\ UNCHANGED <<lib, failed, thrown>>
       \/ /\ ~lib.ex
          /\ lib' = Dir(lib_backup.files)
          /\ pc' = "rmbackup"
          /\ UNCHANGED <<exc, failed, thrown>>
       \/ /\ ~lib.ex
          /\ lib' \in CopytreeLeaves(lib_backup)
          /\ exc' = "copytree restore"
          /\ failed' = failed \cup {"restore_copy"}
          /\ pc' = "finally"
          /\ UNCHANGED thrown
    /\ UNCHANGED <<envVars, handleVars, netVars, lib_backup, bin, python_executable, out>>

\* line 152
RmBackup ==
    /\ pc = "rmbackup"
    /\ pc' = "finally"
    /\ \/ /\ lib_backup' = Absent
          /\ UNCHANGED <<exc, failed, thrown>>
       \/ /\ lib_backup' \in RmtreeLeaves(lib_backup)
          /\ exc' = "rmtree backup"
          /\ failed' = failed \cup {"backup_rm"}
          /\ UNCHANGED thrown
    /\ UNCHANGED <<envVars, handleVars, netVars, lib, bin, python_executable, log, out>>

\* lines 155-157, then the exception in flight goes on to the caller
Finally ==
    /\ pc = "finally"
    /\ \/ /\ ~lib_backup.ex
          /\ pc' = IF exc = "" THEN "make_bin" ELSE "done"
          /\ UNCHANGED <<lib_backup, exc, failed, thrown>>
       \/ /\ lib_backup.ex
          /\ lib_backup' = Absent
          /\ pc' = IF exc = "" THEN "make_bin" ELSE "done"
          /\ UNCHANGED <<exc, failed, thrown>>
       \/ /\ lib_backup.ex
          /\ lib_backup' \in RmtreeLeaves(lib_backup)
          /\ Raise("rmtree finally", {"final_rm"})
    /\ UNCHANGED <<envVars, handleVars, netVars, lib, bin, python_executable, log, out>>

(***************************************************************************)
(* make_bin, lines 261-288, and the closing message of lines 161-167.      *)
(***************************************************************************)
ProbeResults == [1..Len(allowed_executables(windows)) -> Probes]

MakeBin ==
    /\ pc = "make_bin"
    /\ \E probes \in ProbeResults :
         LET py == which_python(windows, probes)
         IN /\ python_executable' = py.value
            /\ \/ /\ ~py.raised
                  /\ bin' = BinAfterChmod(bin, windows, py.value)
                  /\ out' = Append(out, "is installed now")
                  /\ pc' = "done"
                  /\ UNCHANGED <<exc, failed, thrown>>
               \/ /\ py.raised
                  /\ Raise("UnicodeDecodeError", {"make_bin"})
                  /\ UNCHANGED <<bin, out>>
               \/ /\ ~py.raised
                  /\ bin' \in {bin, BinAfterBat(bin, windows, py.value),
                               BinAfterWrite(bin, windows, py.value)}
                  /\ Raise("OSError", {"make_bin"})
                  /\ UNCHANGED out
    /\ UNCHANGED <<envVars, handleVars, netVars, lib, lib_backup, log>>

Next ==
    \/ HandleGuardFails
    \/ HandleFindFails
    \/ Handle
    \/ EnterUpdate
    \/ RmStale
    \/ BackupCopy
    \/ RmLib
    \/ FetchChecksum
    \/ OpenArchive
    \/ EnterTemporaryDirectory
    \/ Stream
    \/ CheckHashes
    \/ Extract
    \/ Interrupt
    \/ Except
    \/ Restore
    \/ RmBackup
    \/ Finally
    \/ MakeBin

Spec == Init /\ [][Next]_vars

TypeOK ==
    /\ pc \in {"start", "update", "stale", "backup", "rmlib", "checksum", "archive",
               "mkdtemp", "stream", "digest", "extract", "except", "restore", "rmbackup",
               "finally", "make_bin", "done"}
    /\ lib.ex \in BOOLEAN /\ lib_backup.ex \in BOOLEAN
    /\ tmpdir \in BOOLEAN
    /\ packages \in PackageLists /\ found \in PackageLists
    /\ release \in Packages \cup {NoRelease}

(***************************************************************************)
(* Properties.                                                             *)
(***************************************************************************)
Returned == pc = "done"
FilesystemUntouched == lib = lib0 /\ lib_backup = backup0 /\ bin = bin0
\* the archive of this run has been downloaded completely
Downloaded == InLog("read") /\ "stream" \notin failed

\* C1: whenever update returns after at most one failing step, lib holds
\* exactly the content it had before the run or exactly the content of the
\* new release, never a part or a mix of them.
C1_UpdateIsAtomic ==
    (Returned /\ Cardinality(failed) <= 1) => lib \in {lib0, Dir(Entries(archive))}

\* C2: when lib existed before the run and the extraction fails, lib equals
\* its snapshot from before the run and lib-backup does not exist once update
\* has returned.
C2_ExtractionFailureRestores ==
    (Returned /\ lib0.ex /\ failed = {"extract"}) => (lib = lib0 /\ ~lib_backup.ex)

C4_VerifiedBeforeMutation ==
    (pc = "except" /\ "digest" \in failed) => (lib = lib0 /\ lib_backup = backup0)

\* C5: every error that reaches the caller after the copy of lib to
\* lib-backup has completed has been preceded by the restoring copy of
\* lib-backup to lib.
C5_RollbackAfterBackup ==
    (Returned /\ exc # "" /\ InLog("copytree lib lib-backup") /\ "backup_copy" \notin failed)
        => InLog("copytree lib-backup lib")

\* C6: after a run of update in which no step failed, lib-backup does not
\* exist, lib holds exactly the entries of the new archive and none of the
\* old install, and the launcher embeds the string returned by _which_python.
C6_Launcher ==
    IF windows THEN bin.bat.ex /\ bin.bat.python = python_executable
    ELSE bin.poetry.ex /\ bin.poetry.shebang = python_executable /\ bin.poetry.exec
C6_SuccessfulRun ==
    (Returned /\ exc = "" /\ InLog("extractall")) =>
        /\ ~lib_backup.ex
        /\ lib = Dir(Entries(archive))
        /\ lib.files \cap lib0.files = {}
        /\ C6_Launcher

C6_Witness ==
    /\ Returned /\ exc = "" /\ InLog("extractall")
    /\ lib0 = Dir(OldFiles) /\ backup0.ex
    /\ lib = Dir(NewFiles)
    /\ python_executable = "python3" /\ bin.poetry.shebang = "python3"

\* handle has made its selection and update has not been entered
HandleLive == current \in Versions
Range(s) == {s[i] : i \in 1..Len(s)}

\* C7: in each no-op outcome of handle (no candidate; every candidate a
\* prerelease and preview false; selected version equal to the running one)
\* update is not entered, nothing is downloaded, lib, lib-backup and bin are
\* unchanged, handle returns normally, and the outcome has its own message.
C7_NoCandidate == found = <<>>
C7_NoSelection == found # <<>> /\ ~preview /\ \A p \in Range(found) : is_prerelease(p)
C7_SameVersion == release.version = current
C7_NoOpLeavesEverything ==
    (HandleLive /\ (C7_NoCandidate \/ C7_NoSelection \/ C7_SameVersion)) =>
        /\ Returned /\ exc = ""
        /\ log = <<"find_packages">>
        /\ FilesystemUntouched
        /\ C7_NoCandidate => out = <<"No release found for the specified version">>
        /\ C7_NoSelection => out = <<"No new release found">>
        /\ C7_SameVersion => out = <<"You are using the latest version">>

C7_Witness ==
    /\ HandleLive /\ Returned /\ C7_SameVersion /\ Len(found) > 1
    /\ lib.ex /\ lib_backup.ex

\* C8: when preview is false the selected release is never a prerelease, and
\* if a candidate that is not a prerelease exists, the selected release is
\* the one with the highest version among those.
C8_NoPrereleaseWithoutPreview ==
    (HandleLive /\ ~preview) =>
        /\ release # NoRelease => ~is_prerelease(release)
        /\ (\E p \in Range(found) : ~is_prerelease(p)) =>
              /\ release \in Range(found)
              /\ ~is_prerelease(release)
              /\ \A p \in Range(found) :
                    ~is_prerelease(p) => ~VersionLt(release.version, p.version)

C8_Witness ==
    /\ HandleLive /\ ~preview /\ Len(found) = 3
    /\ is_prerelease(found[3]) /\ VersionLt(found[1].version, found[2].version)
    /\ VersionLt(found[2].version, found[3].version)
    /\ release = found[2]

\* C9: when preview is true and the candidate list is not empty, the selected
\* release has the highest version of the list, prerelease or not; the
\* sorted list is a rearrangement of the candidates in descending order of
\* version.
Count(s, x) == Cardinality({i \in 1..Len(s) : s[i] = x})
C9_HighestWithPreview ==
    (HandleLive /\ preview /\ found # <<>>) =>
        /\ release \in Range(found)
        /\ \A p \in Range(found) : ~VersionLt(release.version, p.version)
        /\ Len(packages) = Len(found)
        /\ \A p \in Range(found) : Count(packages, p) = Count(found, p)
        /\ \A i, j \in 1..Len(packages) :
              i < j => ~VersionLt(packages[i].version, packages[j].version)

C9_Witness ==
    /\ HandleLive /\ preview /\ Len(found) = 3
    /\ found[1] = found[3] /\ VersionLt(found[1].version, found[2].version)
    /\ is_prerelease(found[2]) /\ release = found[2]

\* C10: when the location of the command's file is not under the home
\* directory, handle raises the configuration error and no index query, no
\* download and no change of lib, lib-backup or bin has happened.
C10_NotUnderHome == ~\E n \in 0..Len(file) : SubSeq(file, 1, n) = home
C10_GuardBeforeEverything ==
    C10_NotUnderHome =>
        /\ pc \in {"start", "done"}
        /\ log = <<>>
        /\ FilesystemUntouched
        /\ Returned => exc = "PoetrySimpleConsoleException"

C10_Witness ==
    /\ C10_NotUnderHome /\ Returned /\ exc = "PoetrySimpleConsoleException"
    /\ home = <<"h", "p">> /\ file[1] = "h"

(***************************************************************************)
(* make_bin and _which_python on their own: the interpreter is resolved    *)
(* from given probe results and the launchers are written, twice.          *)
(***************************************************************************)
WindowsBin == [poetry |-> [ex |-> TRUE, shebang |-> "", exec |-> FALSE],
               bat |-> [ex |-> TRUE, python |-> "py.exe -2"]]

InitLauncher ==
    /\ pc = "which"
    /\ home = <<"h">>
    /\ file = <<"h", "lib", "update.py">>
    /\ windows \in BOOLEAN
    /\ lib = Dir(NewFiles)
    /\ lib_backup = Absent
    /\ bin \in {NoBin, OldBin, WindowsBin}
    /\ tmpdir = FALSE
    /\ current = NoRelease.version
    /\ arg = NoArg
    /\ preview = FALSE
    /\ found = <<>>
    /\ packages = <<>>
    /\ release = NoRelease
    /\ checksum = NoText
    /\ archive = "release"
    /\ python_executable = ""
    /\ exc = ""
    /\ failed = {}
    /\ log = <<>>
    /\ out = <<>>
    /\ lib0 = lib
    /\ backup0 = lib_backup
    /\ bin0 = bin
    /\ size = "none"
    /\ thrown = ""
    /\ runs = 0
    /\ probing \in ProbeResults
    /\ probed = 0
    /\ bin_first = NoBin

launcherFrame == <<home, file, windows, lib, lib_backup, tmpdir, handleVars, checksum,
                   archive, log, out, lib0, backup0, bin0, size, thrown, runs, probing>>

\* line 266 with lines 290-324
WhichPython ==
    /\ pc = "which"
    /\ LET py == which_python(windows, probing)
       IN /\ python_executable' = py.value
          /\ probed' = py.probed
          /\ exc' = IF py.raised THEN "UnicodeDecodeError" ELSE ""
          /\ failed' = IF py.raised THEN {"make_bin"} ELSE {}
          /\ pc' = IF py.raised THEN "done" ELSE "write"
    /\ UNCHANGED <<launcherFrame, bin, bin_first>>

\* lines 264-288
WriteLaunchers ==
    /\ pc = "write"
    /\ bin' = BinAfterChmod(bin, windows, python_executable)
    /\ bin_first' = bin'
    /\ pc' = "written"
    /\ UNCHANGED <<launcherFrame, python_executable, probed, exc, failed>>

\* make_bin once more, with the same probe results
WriteLaunchersAgain ==
    /\ pc = "written"
    /\ bin' = BinAfterChmod(bin, windows, which_python(windows, probing).value)
    /\ pc' = "rewritten"
    /\ UNCHANGED <<launcherFrame, python_executable, probed, exc, failed, bin_first>>

NextLauncher == WhichPython \/ WriteLaunchers \/ WriteLaunchersAgain

SpecLauncher == InitLauncher /\ [][NextLauncher]_vars

Candidates == allowed_executables(windows)
Decodable == \A k \in DOMAIN probing : probing[k].kind # "UnicodeDecodeError"
Parsed(k) == /\ probing[k].kind = "output"
             /\ probing[k].name = "Python"
             /\ Len(probing[k].nums) >= 3
Python3(k) == Parsed(k) /\ probing[k].nums[1] >= 3

\* C11: _which_python returns the first candidate, in list order, whose
\* output parses with a major version of at least 3, whatever number of
\* earlier candidates failed to run or reported something else, and it probes
\* no candidate after that one.
C11_FirstPython3 ==
    probed > 0 =>
        \A k \in DOMAIN probing :
            (/\ Python3(k)
             /\ \A j \in 1..(k-1) : ~Python3(j) /\ probing[j].kind # "UnicodeDecodeError")
            => (exc = "" /\ python_executable = Candidates[k] /\ probed = k)

C11_Witness ==
    /\ probed = 3 /\ python_executable = "py.exe -3"
    /\ probing[1].kind = "CalledProcessError"
    /\ Parsed(2) /\ probing[2].nums[1] = 2
    /\ Python3(3) /\ Python3(4)

\* C12: when no candidate parses with a major version of at least 3,
\* _which_python returns the first candidate whose output matched the
\* pattern, and "python" when no output matched at all.
C12_FallbackIsFirstParsed ==
    (probed > 0 /\ Decodable /\ \A k \in DOMAIN probing : ~Python3(k)) =>
        IF \E k \in DOMAIN probing : Parsed(k)
        THEN \E k \in DOMAIN probing :
                /\ Parsed(k) /\ \A j \in 1..(k-1) : ~Parsed(j)
                /\ python_executable = Candidates[k]
        ELSE python_executable = "python"

\* C13: _which_python never raises, whatever probing a candidate yields.
C13_NeverRaises == probed > 0 => exc = ""

\* C17: a second run of make_bin with the same platform and the same probe
\* results leaves the launchers, content and permission bits, as the first
\* run left them.
C17_MakeBinIdempotent == pc = "rewritten" => bin = bin_first

C17_Witness ==
    /\ pc = "rewritten" /\ bin = bin_first /\ bin # bin0
    /\ ~windows /\ bin0 = NoBin /\ bin.poetry.exec /\ bin.poetry.shebang = "python3"

\* C14: the temporary download directory does not exist outside the with
\* statement of _update, on whichever path the statement was left.
C14_TemporaryDirectoryRemoved == tmpdir => pc \in {"stream", "digest", "extract"}

C14_Witness ==
    /\ ~tmpdir /\ pc = "except" /\ InLog("extractall") /\ exc = "extractall"

\* C15: when the archive response carries no Content-Length header the
\* download goes on; the missing header is not an error.
C15_MissingLengthProceeds ==
    size = "absent" => (exc # "TypeError" /\ "content_length" \notin failed)

\* C16: when copying lib to lib-backup fails, lib is exactly as before the
\* run and no lib-backup directory exists once update has returned.
C16_CopyFailureLeavesNoBackup ==
    (Returned /\ "backup_copy" \in failed) => (lib = lib0 /\ ~lib_backup.ex)

\* C18: whenever _update fails (and nothing else does) while a backup exists,
\* the exception that reaches the caller of update is the one _update raised,
\* lib has been recreated from lib-backup and lib-backup has been deleted.
C18_RollbackSurfacesOriginal ==
    (Returned /\ thrown # "" /\ InLog("copytree lib lib-backup") /\ Cardinality(failed) <= 1)
        => (exc = thrown /\ lib = lib0 /\ ~lib_backup.ex)

\* C19: when an install existed before the run, every state of a run with
\* at most one failing step or interruption has a complete installation on
\* disk: the old one in lib, the old one in lib-backup, or the new one in lib.
C19_NoDataLoss ==
    (lib0.ex /\ Cardinality(failed) <= 1) =>
        (lib = lib0 \/ lib_backup = lib0 \/ lib = Dir(Entries(archive)))

(***************************************************************************)
(* Runs of update one after the other on the same home directory.  A run   *)
(* ends by returning, by an exception, or by the process being terminated  *)
(* part-way; the next run finds lib, lib-backup and bin as they were left. *)
(***************************************************************************)
InitRuns ==
    /\ pc = "update"
    /\ home = <<"h">>
    /\ file = <<"h", "lib", "update.py">>
    /\ windows = FALSE
    /\ lib \in {Absent, Dir(OldFiles)}
    /\ lib_backup \in {Absent, Dir(StaleFiles)}
    /\ bin = OldBin
    /\ tmpdir = FALSE
    /\ current = NoRelease.version
    /\ arg = NoArg
    /\ preview = FALSE
    /\ found = <<>>
    /\ packages = <<>>
    /\ release = [version |-> [rel |-> 1, pre |-> FALSE]]
    /\ checksum = NoText
    /\ archive = "release"
    /\ python_executable = ""
    /\ exc = ""
    /\ failed = {}
    /\ log = <<>>
    /\ out = <<>>
    /\ lib0 = lib
    /\ backup0 = lib_backup
    /\ bin0 = bin
    /\ size = "none"
    /\ thrown = ""
    /\ runs = 0
    /\ probing = <<>>
    /\ probed = 0
    /\ bin_first = NoBin

\* the process is terminated between two steps of update: nothing more runs
Terminate ==
    /\ pc \in {"stale", "backup", "rmlib", "checksum", "archive", "mkdtemp", "stream",
               "digest", "extract", "except", "restore", "rmbackup", "finally", "make_bin"}
    /\ Raise("terminated", {"terminated"})
    /\ UNCHANGED <<envVars, handleVars, netVars, fsVars, log, out>>

\* the command is run again: update starts on the directories as they are
NewRun ==
    /\ pc = "done"
    /\ runs + 1 < MaxRuns
    /\ runs' = runs + 1
    /\ pc' = "update"
    /\ lib0' = lib
    /\ backup0' = lib_backup
    /\ bin0' = bin
    /\ exc' = ""
    /\ failed' = {}
    /\ thrown' = ""
    /\ log' = <<>>
    /\ out' = <<>>
    /\ checksum' = NoText
    /\ archive' = "release"
    /\ size' = "none"
    /\ tmpdir' = FALSE
    /\ python_executable' = ""
    /\ UNCHANGED <<home, file, windows, launcherVars, handleVars, lib, lib_backup, bin>>

NextRuns ==
    \/ EnterUpdate
    \/ RmStale
    \/ BackupCopy
    \/ RmLib
    \/ FetchChecksum
    \/ OpenArchive
    \/ EnterTemporaryDirectory
    \/ Stream
    \/ CheckHashes
    \/ Extract
    \/ Interrupt
    \/ Except
    \/ Restore
    \/ RmBackup
    \/ Finally
    \/ MakeBin
    \/ Terminate
    \/ NewRun

SpecRuns == InitRuns /\ [][NextRuns]_vars

\* C20: in every run, the backup that the except clause is about to copy
\* into lib is the content lib had when this run started, and after the copy
\* lib is that content again, whatever lib-backup an earlier run left behind.
C20_RestoresCurrentRunOnly ==
    /\ pc = "restore" => (lib0.ex /\ lib_backup = lib0)
    /\ pc = "rmbackup" => lib = lib0

\* a later run that started with a lib-backup left behind by an earlier one,
\* differing from lib, has failed in _update and restored lib
C20_Witness ==
    /\ runs >= 1
    /\ backup0.ex
    /\ backup0 # lib0
    /\ pc = "rmbackup"
    /\ lib = lib0
    /\ thrown # ""

====
